---- MODULE Spec2Model ----
(***************************************************************************)
(* Transiter: a retrieval-augmented question-answering service.            *)
(*                                                                         *)
(* The module models server/index.js: the chunker chunkText (as the loop   *)
(* it is, under SpecChunk) and the two request handlers POST               *)
(* /admin/ingest/url and POST /ask running concurrently against the        *)
(* document store (under Spec). Of frontend/src/App.jsx it models the Chat *)
(* component (under SpecChat) and the stage of the App component, which     *)
(* slides between the Chat panel and the Admin panel (under SpecStage).     *)
(***************************************************************************)
EXTENDS Integers, Sequences, FiniteSets, TLC

VARIABLES
    \* ---- one call of chunkText (index.js 34-42) ----
    text,       \* the argument text, a sequence of characters
    size,       \* the argument size
    overlap,    \* the argument overlap
    i,          \* the cursor
    chunks,     \* the chunks pushed so far
    starts,     \* history: the value of i at each push
    pc,         \* "loop" while the while-loop runs, "done" once it returned
    \* ---- the server process and the document store ----
    adminToken, \* process.env.ADMIN_TOKEN
    store,      \* the collection: a set of documents
    nextId,     \* the _id the store gives the next inserted document
    req,        \* the requests: handler position, locals and response
    lastWrite,  \* history: per (url,pos) key, the last upsert applied to it
    \* ---- the frontend ----
    chat,       \* the Chat component: its state and the calls of ask() under way
    stage       \* the App component: the panel shown, the lock and the timers

chunkVars == <<text, size, overlap, i, chunks, starts, pc>>

serverVars == <<adminToken, store, nextId, req, lastWrite>>

uiVars == <<chat, stage>>

vars == <<chunkVars, serverVars, uiVars>>

----------------------------------------------------------------------------
(* Bounds of the model. *)

\* longest text the chunker is run on (besides the 1000-character example)
MaxLen == 5
\* largest window and overlap the chunker is run with (besides 900/120)
MaxSize == 4
\* cap on the pushes of a run that would not terminate (overlap >= size)
MaxChunks == MaxLen + 1

(* Program constants. *)

\* chunkText(text, size = 900, overlap = 120)
DefaultSize == 900
DefaultOverlap == 120

----------------------------------------------------------------------------
(* Helpers. *)

Min(a, b) == IF a < b THEN a ELSE b
Max(a, b) == IF a > b THEN a ELSE b

\* ceil(a / b) for a >= 0, b > 0
CeilDiv(a, b) == (a + b - 1) \div b

\* n copies of the character c
Rep(c, n) == [k \in 1..n |-> c]

\* the sequences over S of length at most n
SeqsUpTo(S, n) == UNION {[1..k -> S] : k \in 0..n}

----------------------------------------------------------------------------
(* chunkText *)

\* String.prototype.slice(start, end): a negative index counts from the end,
\* both are clamped to [0, length], and an empty range gives "".
SliceEndsAtSize(s, start, end) ==
    LET len  == Len(s)
        from == IF start < 0 THEN Max(len + start, 0) ELSE Min(start, len)
        to   == Min(end - start, len)
    IN  IF from < to THEN SubSeq(s, from + 1, to) ELSE <<>>

SliceInclusive(s, start, end) ==
    LET len  == Len(s)
        from == IF start < 0 THEN Max(len + start, 0) ELSE Min(start, len)
        to   == IF end < 0 THEN Max(len + end + 1, 0) ELSE Min(end + 1, len)
    IN  IF from < to THEN SubSeq(s, from + 1, to) ELSE <<>>

Slice(s, start, end) ==
    LET len  == Len(s)
        from == IF start < 0 THEN Max(len + start, 0) ELSE Min(start, len)
        to   == IF end < 0 THEN Max(len + end, 0) ELSE Min(end, len)
    IN  IF from < to THEN SubSeq(s, from + 1, to) ELSE <<>>

\* i += (size - overlap)
AdvanceBySize(cur, sz, ov) == cur + sz

AdvanceByOverlap(cur, sz, ov) == cur + ov

AdvanceSkipsOne(cur, sz, ov) == cur + (sz - ov) + 1

Advance(cur, sz, ov) == cur + (sz - ov)

\* while (i < text.length)
LoopGuardStopsAtOverlap(cur, t, ov) == cur + ov < Len(t)

LoopGuard(cur, t, ov) == cur < Len(t)

\* the inputs chunkText is run on: every short text over two characters with
\* every small window and overlap, and the 1000-character text with the
\* defaults
ChunkInputs ==
    {<<t, sz, ov>> : t \in SeqsUpTo({"a", "b"}, MaxLen), sz \in 1..MaxSize, ov \in 0..MaxSize}
    \cup {<<Rep("a", 1000), DefaultSize, DefaultOverlap>>}

\* one iteration of the loop: chunks.push(text.slice(i, i + size)); i += ...
ChunkStep ==
    /\ pc = "loop"
    /\ LoopGuard(i, text, overlap)
    /\ Len(chunks) < MaxChunks
    /\ chunks' = Append(chunks, Slice(text, i, i + size))
    /\ starts' = Append(starts, i)
    /\ i' = Advance(i, size, overlap)
    /\ UNCHANGED <<text, size, overlap, pc>>
    /\ UNCHANGED serverVars
    /\ UNCHANGED uiVars

\* the loop condition fails: return chunks
ChunkReturn ==
    /\ pc = "loop"
    /\ ~LoopGuard(i, text, overlap)
    /\ pc' = "done"
    /\ UNCHANGED <<text, size, overlap, i, chunks, starts>>
    /\ UNCHANGED serverVars
    /\ UNCHANGED uiVars

\* chunkText as an operator, for its callers: the same loop, run to its end
RECURSIVE ChunkLoop(_, _, _, _, _)
ChunkLoop(t, sz, ov, cur, acc) ==
    IF LoopGuard(cur, t, ov)
    THEN ChunkLoop(t, sz, ov, Advance(cur, sz, ov), Append(acc, Slice(t, cur, cur + sz)))
    ELSE acc

ChunkText(t, sz, ov) == ChunkLoop(t, sz, ov, 0, <<>>)

----------------------------------------------------------------------------
(* Values of the requests: JSON values carry their type, since the schemas *)
(* test it.                                                                *)

JStr(s) == [t |-> "string", v |-> s]
JNum(n) == [t |-> "number", v |-> n]
JArr(a) == [t |-> "array", v |-> a]
\* a header that is not sent, an environment variable that is not set
Undefined == [t |-> "undefined", v |-> ""]

Has(rec, f) == f \in DOMAIN rec

IsJStr(x) == x.t = "string"
IsJStrArr(x) == x.t = "array" /\ \A k \in 1..Len(x.v) : IsJStr(x.v[k])
\* the strings of an array of strings
Strings(x) == [k \in 1..Len(x.v) |-> x.v[k].v]

\* the set of the elements of a sequence
Range(s) == {s[k] : k \in 1..Len(s)}

----------------------------------------------------------------------------
(* Text: a text is a sequence of characters.                               *)

Alphabet == <<"a", "b", "c", "d", "e", "f", "g", "h", "i", "j",
              "k", "l", "m", "n", "o", "p", "q", "r", "s", "t">>
Code(c) == IF \E k \in 1..Len(Alphabet) : Alphabet[k] = c
           THEN CHOOSE k \in 1..Len(Alphabet) : Alphabet[k] = c
           ELSE 0

\* a text of n characters in blocks of one letter each, the first block of
\* the letter after the off-th: a block is as long as the step of the chunker
\* with its defaults, so that the chunks of the text begin with different
\* letters
Block(n, off) ==
    [k \in 1..n |-> Alphabet[((k - 1) \div (DefaultSize - DefaultOverlap)) + 1 + off]]

\* \s
IsWs(c) == c \in {" ", "\n"}

\* s.replace(/\s+/g, " "): every run of whitespace becomes one space
Collapse(s) ==
    LET Kept(k) == ~IsWs(s[k]) \/ k = 1 \/ ~IsWs(s[k - 1])
        idx == SelectSeq([k \in 1..Len(s) |-> k], Kept)
    IN  [j \in 1..Len(idx) |-> IF IsWs(s[idx[j]]) THEN " " ELSE s[idx[j]]]

\* s.trim()
RECURSIVE TrimStart(_)
TrimStart(s) == IF s # <<>> /\ IsWs(s[1]) THEN TrimStart(Tail(s)) ELSE s
RECURSIVE TrimEnd(_)
TrimEnd(s) == IF s # <<>> /\ IsWs(s[Len(s)]) THEN TrimEnd(SubSeq(s, 1, Len(s) - 1)) ELSE s
Trim(s) == TrimEnd(TrimStart(s))

----------------------------------------------------------------------------
(* The web: what a fetched URL may answer. A page is what the handler      *)
(* reads of its DOM: the text of the first h1, of title and of #content    *)
(* (absent when there is no such element) and the text of body.            *)

URLS == {"https://u1", "https://u2", "https://u3", "https://u4"}
\* z.string().url()
IsUrl(s) == s \in URLS

General == <<"G", "e", "n", "e", "r", "a", "l">>

Html ==
    [ empty |-> [body |-> <<>>],
      short |-> [h1 |-> <<" ", "F", "a", "r", "e", " ">>,
                 content |-> <<" ", "b", "c", " ", "\n", "d", " ">>,
                 body |-> <<" ", "F", "a", "r", "e", " ", " ", "b", "c", " ", "\n", "d", " ">>],
      longA |-> [title |-> <<"J", "R">>, body |-> Block(1000, 0)],
      longB |-> [title |-> <<" ">>, content |-> <<>>, body |-> Block(1000, 3)],
      bigA  |-> [h1 |-> <<"A">>, body |-> Block(7000, 0)],
      bigB  |-> [h1 |-> <<"B">>, body |-> Block(7000, 9)] ]

Pages == DOMAIN Html

\* the pages each URL may answer a fetch with
Serves ==
    [u \in URLS |->
        CASE u = "https://u1" -> {"longA", "longB", "short", "empty"}
          [] u = "https://u2" -> {"short", "empty"}
          [] u = "https://u3" -> {"bigA"}
          [] u = "https://u4" -> {"bigB"}]

\* h1?.textContent?.trim() || title?.textContent?.trim() || "General"
TitleOf(html) ==
    LET h == IF Has(html, "h1") THEN Trim(html.h1) ELSE <<>>
        t == IF Has(html, "title") THEN Trim(html.title) ELSE <<>>
    IN  IF h # <<>> THEN h ELSE IF t # <<>> THEN t ELSE General

\* querySelector("#content")?.textContent || body.textContent || ""
BodyTextOf(html) ==
    IF Has(html, "content") /\ html.content # <<>> THEN html.content ELSE html.body

\* bodyText.replace(/\s+/g, " ").trim()
TextOf(html) == Trim(Collapse(BodyTextOf(html)))

----------------------------------------------------------------------------
(* The texts the handler computes of each page. They are computed once     *)
(* here, and a chunk is held in the state as [page, k], which names        *)
(* PageChunks[page][k].                                                    *)

\* const text = bodyText.replace(/\s+/g, " ").trim()
PageText == [p \in Pages |-> TextOf(Html[p])]

\* const chunks = chunkText(text)
PageChunks == [p \in Pages |-> ChunkText(PageText[p], DefaultSize, DefaultOverlap)]

ChunksOf(p) == [k \in 1..Len(PageChunks[p]) |-> [page |-> p, k |-> k]]

\* the text of a chunk
ChunkString(c) == PageChunks[c.page][c.k]

----------------------------------------------------------------------------
(* The hosted embedding model, a fixed function of the text. The model     *)
(* stands for it with one dimension, the code of the first character.      *)

Embed(t) == IF t = <<>> THEN <<0>> ELSE <<Code(t[1])>>

\* embeddings.embedDocuments(chunks)
EmbedDocuments(cs) == [k \in 1..Len(cs) |-> Embed(ChunkString(cs[k]))]

Abs(x) == IF x < 0 THEN -x ELSE x
\* vectorSearchScore: the nearer, the higher
Score(q, e) == 0 - Abs(q[1] - e[1])

----------------------------------------------------------------------------
(* The document store: a set of documents, each with the _id the store     *)
(* gave it. One updateOne is applied atomically; the operations of one     *)
(* unordered bulkWrite are applied one at a time, in any order, and those  *)
(* of concurrent requests interleave.                                      *)

WithId(d, id) ==
    [_id |-> id, city |-> d.city, category |-> d.category, url |-> d.url,
     chunk |-> d.chunk, meta |-> d.meta, pos |-> d.pos, embedding |-> d.embedding]

\* the document without the _id of the store
Fields(x) ==
    [city |-> x.city, category |-> x.category, url |-> x.url,
     chunk |-> x.chunk, meta |-> x.meta, pos |-> x.pos, embedding |-> x.embedding]

KeyOf(x) == <<x.url, x.pos>>
Keys(st) == {KeyOf(x) : x \in st}

\* the documents { url, pos } selects
Matches(st, f) == {x \in st : x.url = f.url /\ x.pos = f.pos}

\* updateOne { filter, update: { $set: d }, upsert: true }: the outcomes, as
\* [store, nextId]: a matching document takes the fields of d and keeps its
\* _id; without a match, d is inserted under a new _id
UpdateOneInsertOnly(st, nid, op) ==
    IF Matches(st, op.filter) = {}
    THEN {[store |-> st \cup {WithId(op.set, nid)}, nextId |-> nid + 1]}
    ELSE {[store |-> st, nextId |-> nid]}

UpdateOneNoFilter(st, nid, op) ==
    {[store |-> st \cup {WithId(op.set, nid)}, nextId |-> nid + 1]}

UpdateOneClearsUrl(st, nid, op) ==
    IF Matches(st, op.filter) = {}
    THEN {[store |-> {x \in st : x.url # op.filter.url} \cup {WithId(op.set, nid)},
           nextId |-> nid + 1]}
    ELSE {[store |-> (st \ {x}) \cup {WithId(op.set, x._id)}, nextId |-> nid] :
            x \in Matches(st, op.filter)}

UpdateOne(st, nid, op) ==
    IF Matches(st, op.filter) = {}
    THEN {[store |-> st \cup {WithId(op.set, nid)}, nextId |-> nid + 1]}
    ELSE {[store |-> (st \ {x}) \cup {WithId(op.set, x._id)}, nextId |-> nid] :
            x \in Matches(st, op.filter)}

\* docs.map((d, i) => ({ updateOne: { filter: { url, pos: d.pos ?? i }, ... } }))
UpsertOpsFilterOffByOne(docs) ==
    [k \in 1..Len(docs) |->
        [filter |-> [url |-> docs[k].url, pos |-> k],
         set |-> docs[k]]]

UpsertOps(docs) ==
    [k \in 1..Len(docs) |->
        [filter |-> [url |-> docs[k].url,
                     pos |-> IF Has(docs[k], "pos") THEN docs[k].pos ELSE k - 1],
         set |-> docs[k]]]

\* chunks.map((c, i) => ({ city, category, url, chunk: c, meta, pos: i, embedding }))
MakeDocs(city, category, url, title, tags, cs, embeds) ==
    [k \in 1..Len(cs) |->
        [city |-> city, category |-> category, url |-> url, chunk |-> cs[k],
         meta |-> [section |-> title, tags |-> tags],
         pos |-> k - 1, embedding |-> embeds[k]]]

----------------------------------------------------------------------------
(* Requests. Each of the request slots carries one HTTP request: the       *)
(* position of its handler (pc), the handler's locals, the response, and   *)
(* as history the external calls it has made (log), the pages its fetches  *)
(* returned, the chunks it cut of each, the upserts the store applied for  *)
(* it, and the store as it was when the request arrived.                   *)

Reqs == {"r1", "r2"}
\* the slots that may carry a question: two ingestions, or an ingestion and
\* a question, run concurrently
Askers == {"r2"}

NoResp == [none |-> TRUE]

Fresh ==
    [kind |-> "none", pc |-> "idle", hdr |-> Undefined, valid |-> FALSE,
     city |-> "", category |-> "", urls |-> <<>>, tags |-> <<>>,
     hasCity |-> FALSE, hasCategory |-> FALSE, hasTags |-> FALSE,
     n |-> 0, title |-> <<>>, chunks |-> <<>>, ops |-> <<>>, pending |-> {},
     total |-> 0, query |-> <<>>, qVec |-> <<>>, docs |-> <<>>,
     status |-> 0, resp |-> NoResp,
     log |-> <<>>, pages |-> <<>>, counts |-> <<>>, applied |-> {}, failed |-> "",
     pre |-> {}, doneAtStart |-> {}]

Call(op, n, k) == [op |-> op, n |-> n, k |-> k]

\* e.message
Err(name, issues) == [name |-> name, issues |-> issues]

\* res.status(code).json(body): the handler is over, its locals are gone
Respond(rec, code, body) ==
    [rec EXCEPT !.pc = "done", !.status = code, !.resp = body,
                !.chunks = <<>>, !.ops = <<>>, !.pending = {}, !.docs = <<>>]

\* the slots whose request has been answered
Done == {r \in Reqs : req[r].pc = "done"}

\* what a request remembers of the moment it arrived
Arrive(rec) ==
    [rec EXCEPT !.pre = store, !.doneAtStart = Done]

----------------------------------------------------------------------------
(* POST /admin/ingest/url *)

Headers == {Undefined, JStr("secret"), JStr("guess")}

U1 == JStr("https://u1")
U2 == JStr("https://u2")

IngestBodies ==
    { [city |-> JStr("Tokyo"), urls |-> JArr(<<U1>>), tags |-> JArr(<<JStr("jr")>>)],
      [city |-> JStr("Osaka"), category |-> JStr("Pass"), urls |-> JArr(<<U1, U2>>)],
      [city |-> JStr("Kyoto"), urls |-> JArr(<<U2, U2>>)],
      [city |-> JStr("T"), urls |-> JArr(<<U1>>)],
      [city |-> JStr("Tokyo"), urls |-> JArr(<<>>)],
      [city |-> JStr("Tokyo"), urls |-> JArr(<<U1, JStr("not a url")>>)],
      [urls |-> JArr(<<U1>>), tags |-> JStr("jr")] }

\* the paths at which the schema of the ingestion body finds an issue
IngestIssuesNoMin(body) ==
    {f \in {"city", "category", "urls", "tags"} :
        \/ f = "city" /\ ~(Has(body, "city") /\ IsJStr(body.city))
        \/ f = "category" /\ Has(body, "category") /\ ~IsJStr(body.category)
        \/ f = "urls" /\ ~(/\ Has(body, "urls")
                           /\ IsJStrArr(body.urls)
                           /\ \A k \in 1..Len(body.urls.v) : IsUrl(body.urls.v[k].v))
        \/ f = "tags" /\ Has(body, "tags") /\ ~IsJStrArr(body.tags)}

IngestIssues(body) ==
    {f \in {"city", "category", "urls", "tags"} :
        \/ f = "city" /\ ~(Has(body, "city") /\ IsJStr(body.city) /\ Len(body.city.v) >= 2)
        \/ f = "category" /\ Has(body, "category") /\ ~IsJStr(body.category)
        \/ f = "urls" /\ ~(/\ Has(body, "urls")
                           /\ IsJStrArr(body.urls)
                           /\ Len(body.urls.v) >= 1
                           /\ \A k \in 1..Len(body.urls.v) : IsUrl(body.urls.v[k].v))
        \/ f = "tags" /\ Has(body, "tags") /\ ~IsJStrArr(body.tags)}

\* req.headers['x-admin-token'] !== process.env.ADMIN_TOKEN
Unauthorized(hdr, token) == hdr # token

\* the loop goes to its next URL (fetch is called) or, past the last one, the
\* handler answers { ok: true, ingestedChunks: total }
NextUrl(rec) ==
    IF rec.n < Len(rec.urls)
    THEN [rec EXCEPT !.pc = "fetch", !.n = rec.n + 1,
                     !.chunks = <<>>, !.ops = <<>>,
                     !.log = Append(rec.log, Call("fetch", rec.n + 1, 1))]
    ELSE Respond(rec, 200, [ok |-> TRUE, ingestedChunks |-> rec.total])

\* await upsertDocs(docs) has returned: total += docs.length
AfterUpsertOverwrites(rec, count) == NextUrl([rec EXCEPT !.total = count])

AfterUpsert(rec, count) == NextUrl([rec EXCEPT !.total = rec.total + count])

\* upsertDocs(docs): it returns at once for no documents, and calls
\* col().bulkWrite(operations, { ordered: false }) otherwise
UpsertDocsAlwaysWrites(rec, docs) ==
    [rec EXCEPT !.pc = "write",
                !.chunks = <<>>,
                !.ops = UpsertOps(docs),
                !.pending = 1..Len(docs),
                !.log = Append(@, Call("bulkWrite", rec.n, Len(docs)))]

UpsertDocs(rec, docs) ==
    IF Len(docs) = 0
    THEN AfterUpsert(rec, Len(docs))
    ELSE [rec EXCEPT !.pc = "write",
                     !.chunks = <<>>,
                     !.ops = UpsertOps(docs),
                     !.pending = 1..Len(docs),
                     !.log = Append(@, Call("bulkWrite", rec.n, Len(docs)))]

\* the request arrives: the token check, schema.parse, and the call of
\* mongo.connect()
IngestStart(r) ==
    /\ req[r].pc = "idle"
    /\ \E hdr \in Headers, body \in IngestBodies :
          LET rec == Arrive([Fresh EXCEPT !.kind = "ingest", !.hdr = hdr,
                                              !.valid = IngestIssues(body) = {}])
          IN  req' = [req EXCEPT ![r] =
                  IF Unauthorized(hdr, adminToken)
                  THEN Respond(rec, 401, [error |-> Err("unauthorized", {})])
                  ELSE IF IngestIssues(body) # {}
                  THEN Respond(rec, 400, [error |-> Err("ZodError", IngestIssues(body))])
                  ELSE [rec EXCEPT !.pc = "connect",
                                   !.city = body.city.v,
                                   !.category = IF Has(body, "category")
                                                THEN body.category.v ELSE "Transit",
                                   !.urls = Strings(body.urls),
                                   !.hasTags = Has(body, "tags"),
                                   !.tags = IF Has(body, "tags")
                                            THEN Strings(body.tags) ELSE <<>>,
                                   !.log = <<Call("connect", 0, 1)>>]]
    /\ UNCHANGED <<adminToken, store, nextId, lastWrite>>
    /\ UNCHANGED chunkVars
    /\ UNCHANGED uiVars

\* mongo.connect() resolved: total = 0 and the loop calls fetch(urls[0])
IngestConnected(r) ==
    /\ req[r].kind = "ingest"
    /\ req[r].pc = "connect"
    /\ req' = [req EXCEPT ![r] = NextUrl([req[r] EXCEPT !.total = 0])]
    /\ UNCHANGED <<adminToken, store, nextId, lastWrite>>
    /\ UNCHANGED chunkVars
    /\ UNCHANGED uiVars

\* fetch(url) and .text() resolved with a page: the title and the text are
\* read of it, the text is cut, and embeddings.embedDocuments(chunks) is called
IngestFetched(r) ==
    /\ req[r].pc = "fetch"
    /\ \E p \in Serves[req[r].urls[req[r].n]] :
          LET cs == ChunksOf(p)
          IN  req' = [req EXCEPT ![r] =
                  [@ EXCEPT !.pc = "embed",
                            !.title = TitleOf(Html[p]),
                            !.chunks = cs,
                            !.pages = Append(@, p),
                            !.counts = Append(@, Len(cs)),
                            !.log = Append(@, Call("embedDocuments", req[r].n, Len(cs)))]]
    /\ UNCHANGED <<adminToken, store, nextId, lastWrite>>
    /\ UNCHANGED chunkVars
    /\ UNCHANGED uiVars

\* embedDocuments resolved: the documents are built and upsertDocs(docs) is
\* called
IngestEmbedded(r) ==
    /\ req[r].pc = "embed"
    /\ LET rec  == req[r]
           docs == MakeDocs(rec.city, rec.category, rec.urls[rec.n], rec.title,
                            rec.tags, rec.chunks, EmbedDocuments(rec.chunks))
       IN  req' = [req EXCEPT ![r] = UpsertDocs(rec, docs)]
    /\ UNCHANGED <<adminToken, store, nextId, lastWrite>>
    /\ UNCHANGED chunkVars
    /\ UNCHANGED uiVars

\* the store applies one of the operations of a bulkWrite under way
StoreApply(r, k) ==
    /\ req[r].pc = "write"
    /\ k \in req[r].pending
    /\ LET op == req[r].ops[k]
           key == <<op.filter.url, op.filter.pos>>
       IN  /\ \E out \in UpdateOne(store, nextId, op) :
                 /\ store' = out.store
                 /\ nextId' = out.nextId
           /\ lastWrite' = [x \in DOMAIN lastWrite \cup {key} |->
                               IF x = key THEN [by |-> r, doc |-> op.set] ELSE lastWrite[x]]
           /\ req' = [req EXCEPT ![r] =
                   [@ EXCEPT !.pending = @ \ {k}, !.applied = @ \cup {key}]]
    /\ UNCHANGED adminToken
    /\ UNCHANGED chunkVars
    /\ UNCHANGED uiVars

\* bulkWrite resolved, every operation applied: total += docs.length and on
\* to the next URL
IngestWritten(r) ==
    /\ req[r].pc = "write"
    /\ req[r].pending = {}
    /\ req' = [req EXCEPT ![r] = AfterUpsert(req[r], Len(req[r].ops))]
    /\ UNCHANGED <<adminToken, store, nextId, lastWrite>>
    /\ UNCHANGED chunkVars
    /\ UNCHANGED uiVars

\* an awaited call rejects (the network, the store or the hosted API fails):
\* the catch block answers 400 with the message of the error. What is left of
\* a bulkWrite under way is not applied. embedDocuments of no chunks sends
\* the hosted API nothing, so it has nothing to fail on.
Awaiting == {"connect", "fetch", "embed", "write", "embedQuery", "aggregate", "invoke"}

RejectedGoesOn(rec) ==
    IF rec.kind = "ingest" /\ rec.pc \in {"fetch", "embed", "write"}
    THEN NextUrl([rec EXCEPT !.failed = rec.pc])
    ELSE Respond([rec EXCEPT !.failed = rec.pc], 400, [error |-> Err(rec.pc, {})])

RejectedRetries(rec) ==
    [rec EXCEPT !.failed = rec.pc, !.log = Append(@, rec.log[Len(rec.log)])]

RejectedRec(rec) ==
    Respond([rec EXCEPT !.failed = rec.pc], 400, [error |-> Err(rec.pc, {})])

\* the store after the catch block: it undoes nothing
AfterCatchRollsBack(st, rec) == {x \in st : KeyOf(x) \notin rec.applied}

AfterCatch(st, rec) == st

Rejected(r) ==
    /\ req[r].pc \in Awaiting
    /\ ~(req[r].pc = "embed" /\ req[r].chunks = <<>>)
    /\ req' = [req EXCEPT ![r] = RejectedRec(req[r])]
    /\ store' = AfterCatch(store, req[r])
    /\ UNCHANGED <<adminToken, nextId, lastWrite>>
    /\ UNCHANGED chunkVars
    /\ UNCHANGED uiVars

----------------------------------------------------------------------------
(* POST /ask *)

\* $vectorSearch { numCandidates: 200, limit: 8 }
NumCandidates == 200
Limit == 8
\* docs.slice(0, 5)
MaxSources == 5

Q1 == <<"a", "b", "c", "d">>
Q2 == <<"j", "r", " ", "p", "a", "s", "s">>

\* the questions of the clients: every combination of a query with each
\* filter present or absent, and bodies the schema rejects
AskQueries == {[query |-> JStr(Q1)], [query |-> JStr(Q2)]}
AskCities ==
    {[city |-> JStr("Tokyo")], [city |-> JStr("Osaka")], [city |-> JStr("")]}
AskCategories ==
    {[category |-> JStr("Transit")], [category |-> JStr("Pass")], [category |-> JStr("")]}
AskTags ==
    {[tags |-> JArr(<<>>)], [tags |-> JArr(<<JStr("jr")>>)],
     [tags |-> JArr(<<JStr("jr"), JStr("bus")>>)]}

\* the union of two records with different fields
Merge(a, b) == [f \in DOMAIN a \cup DOMAIN b |-> IF f \in DOMAIN a THEN a[f] ELSE b[f]]

\* with each filter present or absent
WithOptional(bodies, opts) == bodies \cup {Merge(b, o) : b \in bodies, o \in opts}

InvalidAskBodies ==
    { [query |-> JStr(<<"a", "b">>)],
      [city |-> JStr("Tokyo")],
      [query |-> JStr(Q1), city |-> JNum(7)],
      [query |-> JStr(Q1), tags |-> JArr(<<JNum(7)>>)] }

AllAskBodies ==
    WithOptional(WithOptional(WithOptional(AskQueries, AskCities), AskCategories), AskTags)
    \cup InvalidAskBodies

\* the questions asked while ingestions run
AskBodies ==
    { [query |-> JStr(Q1)],
      [query |-> JStr(Q1), city |-> JStr("Tokyo"), tags |-> JArr(<<JStr("jr")>>)],
      [query |-> JStr(Q2), city |-> JStr("Osaka"), category |-> JStr("Pass")],
      [query |-> JStr(Q1), city |-> JStr("")],
      [query |-> JStr(Q2), category |-> JStr("Transit"), tags |-> JArr(<<>>)] }
    \cup InvalidAskBodies

\* the paths at which the schema of the question finds an issue
AskIssues(body) ==
    {f \in {"query", "city", "category", "tags"} :
        \/ f = "query" /\ ~(Has(body, "query") /\ IsJStr(body.query) /\ Len(body.query.v) >= 3)
        \/ f = "city" /\ Has(body, "city") /\ ~IsJStr(body.city)
        \/ f = "category" /\ Has(body, "category") /\ ~IsJStr(body.category)
        \/ f = "tags" /\ Has(body, "tags") /\ ~IsJStrArr(body.tags)}

\* the documents of S that score best for q
Best(S, q) ==
    {d \in S : \A e \in S : Score(q, d.embedding) >= Score(q, e.embedding)}

\* the rankings of the k nearest documents of S, nearest first (documents
\* that score the same come in any order)
RECURSIVE Ranked(_, _, _)
Ranked(S, q, k) ==
    IF k = 0 \/ S = {}
    THEN {<<>>}
    ELSE UNION {{<<d>> \o rest : rest \in Ranked(S \ {d}, q, k - 1)} : d \in Best(S, q)}

\* the $vectorSearch stage: the limit nearest of the numCandidates nearest
VectorSearchUnlimited(st, q) == Ranked(st, q, NumCandidates)

VectorSearch(st, q) == Ranked(st, q, Min(Limit, NumCandidates))

\* ...(city ? [{ $match: { city } }] : [])
MatchCityForgotten(hits, rec) == hits

MatchCity(hits, rec) ==
    IF rec.hasCity /\ rec.city # ""
    THEN SelectSeq(hits, LAMBDA d : d.city = rec.city)
    ELSE hits

\* ...(category ? [{ $match: { category } }] : [])
MatchCategory(hits, rec) ==
    IF rec.hasCategory /\ rec.category # ""
    THEN SelectSeq(hits, LAMBDA d : d.category = rec.category)
    ELSE hits

\* ...(tags && tags.length > 0 ? [{ $match: { "meta.tags": { $all: tags } } }] : [])
MatchTags(hits, rec) ==
    IF rec.hasTags /\ Len(rec.tags) > 0
    THEN SelectSeq(hits, LAMBDA d : Range(rec.tags) \subseteq Range(d.meta.tags))
    ELSE hits

\* the $project stage
Project(hits, q) ==
    [k \in 1..Len(hits) |->
        [_id |-> hits[k]._id, chunk |-> hits[k].chunk, url |-> hits[k].url,
         city |-> hits[k].city, category |-> hits[k].category, meta |-> hits[k].meta,
         score |-> Score(q, hits[k].embedding)]]

\* col().aggregate(pipeline).toArray(): the answers the store may give
AggregateFilterFirst(st, rec) ==
    {Project(hits, rec.qVec) :
        hits \in VectorSearch(
            {x \in st : MatchTags(MatchCategory(MatchCity(<<x>>, rec), rec), rec) # <<>>},
            rec.qVec)}

Aggregate(st, rec) ==
    {Project(MatchTags(MatchCategory(MatchCity(hits, rec), rec), rec), rec.qVec) :
        hits \in VectorSearch(st, rec.qVec)}

\* docs.map((d, i) => `[[DOC ${i+1}]] ${d.chunk}\nSRC: ${d.url || ''}`)
Context(docs) ==
    [k \in 1..Len(docs) |-> [doc |-> k, chunk |-> docs[k].chunk, src |-> docs[k].url]]

\* docs.slice(0, 5).map(d => d.url).filter(Boolean)
Sources(docs) ==
    SelectSeq([k \in 1..Min(MaxSources, Len(docs)) |-> docs[k].url], LAMBDA u : u # "")

\* what the chat model may answer: ai.content is a string, or a list of parts
Replies == {JStr("answer"), JArr(<<>>)}

\* typeof ai.content === 'string' ? ai.content : (ai.content?.[0]?.text ?? '')
ReplyText(content) ==
    IF IsJStr(content) THEN content.v
    ELSE IF Len(content.v) > 0 THEN content.v[1].text ELSE ""

\* the request arrives: schema.parse, and the call of mongo.connect()
AskStart(r, body) ==
    /\ req[r].pc = "idle"
    /\ r \in Askers
    /\    LET rec == Arrive([Fresh EXCEPT !.kind = "ask", !.valid = AskIssues(body) = {}])
          IN  req' = [req EXCEPT ![r] =
                  IF AskIssues(body) # {}
                  THEN Respond(rec, 400, [error |-> Err("ZodError", AskIssues(body))])
                  ELSE [rec EXCEPT !.pc = "connect",
                                   !.query = body.query.v,
                                   !.hasCity = Has(body, "city"),
                                   !.city = IF Has(body, "city") THEN body.city.v ELSE "",
                                   !.hasCategory = Has(body, "category"),
                                   !.category = IF Has(body, "category")
                                                THEN body.category.v ELSE "",
                                   !.hasTags = Has(body, "tags"),
                                   !.tags = IF Has(body, "tags")
                                            THEN Strings(body.tags) ELSE <<>>,
                                   !.log = <<Call("connect", 0, 1)>>]]
    /\ UNCHANGED <<adminToken, store, nextId, lastWrite>>
    /\ UNCHANGED chunkVars
    /\ UNCHANGED uiVars

\* mongo.connect() resolved: embeddings.embedQuery(query) is called
AskConnected(r) ==
    /\ req[r].kind = "ask"
    /\ req[r].pc = "connect"
    /\ req' = [req EXCEPT ![r] =
            [@ EXCEPT !.pc = "embedQuery",
                      !.log = Append(@, Call("embedQuery", 0, 1))]]
    /\ UNCHANGED <<adminToken, store, nextId, lastWrite>>
    /\ UNCHANGED chunkVars
    /\ UNCHANGED uiVars

\* embedQuery resolved with the vector of the query: the pipeline is built
\* and col().aggregate(pipeline) is called
AskEmbedded(r) ==
    /\ req[r].pc = "embedQuery"
    /\ req' = [req EXCEPT ![r] =
            [@ EXCEPT !.pc = "aggregate",
                      !.qVec = Embed(req[r].query),
                      !.log = Append(@, Call("aggregate", 0, 1))]]
    /\ UNCHANGED <<adminToken, store, nextId, lastWrite>>
    /\ UNCHANGED chunkVars
    /\ UNCHANGED uiVars

\* the store answered the aggregation: the context and the prompt are built
\* of the documents and llm.invoke(prompt) is called
AskSearched(r) ==
    /\ req[r].pc = "aggregate"
    /\ \E docs \in Aggregate(store, req[r]) :
          req' = [req EXCEPT ![r] =
              [@ EXCEPT !.pc = "invoke",
                        !.docs = docs,
                        !.log = Append(@, Call("invoke", 0, Len(Context(docs))))]]
    /\ UNCHANGED <<adminToken, store, nextId, lastWrite>>
    /\ UNCHANGED chunkVars
    /\ UNCHANGED uiVars

\* the chat model answered: res.json({ answer, sources }). The documents the
\* answer was made of stay in the record, as history.
AskAnswered(r) ==
    /\ req[r].pc = "invoke"
    /\ \E content \in Replies :
          req' = [req EXCEPT ![r] =
              [@ EXCEPT !.pc = "done", !.status = 200,
                        !.resp = [answer |-> ReplyText(content),
                                  sources |-> Sources(req[r].docs)]]]
    /\ UNCHANGED <<adminToken, store, nextId, lastWrite>>
    /\ UNCHANGED chunkVars
    /\ UNCHANGED uiVars

----------------------------------------------------------------------------
(* GET /healthz *)

\* res.json({ ok: true }): answered at once, nothing is called
Healthz(r) ==
    /\ req[r].pc = "idle"
    /\ r \in Askers
    /\ req' = [req EXCEPT ![r] =
            Respond(Arrive([Fresh EXCEPT !.kind = "healthz"]), 200, [ok |-> TRUE])]
    /\ UNCHANGED <<adminToken, store, nextId, lastWrite>>
    /\ UNCHANGED chunkVars
    /\ UNCHANGED uiVars

----------------------------------------------------------------------------
(* The Chat component (App.jsx). An event handler runs to its end, or to   *)
(* its next await, and React renders the state it set before the next      *)
(* event is handled: one action is a handler together with that render.    *)

\* the calls of ask() that may be under way at once in the model
MaxCalls == 2

CITIES == <<"Tokyo", "Osaka", "Kyoto">>

\* what the user may type as the question
Queries == {<<>>, <<" ">>, <<"h", "i">>, <<"f", "a", "r", "e">>}

\* what the server may answer: a JSON body with an answer, with an error,
\* with an empty answer and no error, or a body that is no JSON
Responses ==
    { [json |-> TRUE, data |-> [answer |-> "- JR Pass", sources |-> <<>>]],
      [json |-> TRUE, data |-> [error |-> "boom"]],
      [json |-> TRUE, data |-> [answer |-> "", sources |-> <<>>]],
      [json |-> FALSE] }

ChatInit ==
    [query |-> <<>>, city |-> "Tokyo", answer |-> JStr(""), loading |-> FALSE,
     calls |-> <<>>, last |-> "none"]

\* <button onClick={ask} disabled={loading || !query.trim()}>
DisabledWhenBlank(loading, query) == Trim(query) = <<>>

Disabled(loading, query) == loading \/ Trim(query) = <<>>

\* data.answer || data.error
AnswerOrError(data) ==
    IF Has(data, "answer") /\ data.answer # "" THEN JStr(data.answer)
    ELSE IF Has(data, "error") THEN JStr(data.error)
    ELSE Undefined

\* the sequence without its k-th element
Without(seq, k) == SubSeq(seq, 1, k - 1) \o SubSeq(seq, k + 1, Len(seq))

\* catch { setAnswer("Error fetching answer.") } finally { setLoading(false) }
Thrown(c, k) ==
    [c EXCEPT !.answer = JStr("Error fetching answer."), !.loading = FALSE,
              !.calls = Without(c.calls, k), !.last = "thrown"]

\* onChange={(e) => setQuery(e.target.value)}
SetQuery(q) ==
    /\ chat' = [chat EXCEPT !.query = q]
    /\ UNCHANGED <<stage, chunkVars, serverVars>>

\* onClick={() => setCity(c)}
SetCity(c) ==
    /\ chat' = [chat EXCEPT !.city = c]
    /\ UNCHANGED <<stage, chunkVars, serverVars>>

\* the Get Answer button is clicked: ask() runs to its await of fetch
Ask ==
    /\ ~Disabled(chat.loading, chat.query)
    /\ Len(chat.calls) < MaxCalls
    /\ chat' = [chat EXCEPT
            !.loading = TRUE,
            !.answer = JStr(""),
            !.calls = Append(@, [at |-> "fetch",
                                 body |-> [query |-> chat.query, city |-> chat.city],
                                 res |-> NoResp])]
    /\ UNCHANGED <<stage, chunkVars, serverVars>>

\* the Clear button of the Chat card
ClearChat ==
    /\ chat' = [chat EXCEPT !.query = <<>>, !.answer = JStr("")]
    /\ UNCHANGED <<stage, chunkVars, serverVars>>

\* fetch resolved with a response: ask() goes on to await res.json()
FetchResolved(k) ==
    /\ k \in 1..Len(chat.calls)
    /\ chat.calls[k].at = "fetch"
    /\ \E res \in Responses :
          chat' = [chat EXCEPT !.calls[k] = [@ EXCEPT !.at = "json", !.res = res]]
    /\ UNCHANGED <<stage, chunkVars, serverVars>>

\* fetch rejected (the network failed)
FetchRejected(k) ==
    /\ k \in 1..Len(chat.calls)
    /\ chat.calls[k].at = "fetch"
    /\ chat' = Thrown(chat, k)
    /\ UNCHANGED <<stage, chunkVars, serverVars>>

\* res.json() settled: setAnswer(data.answer || data.error) of a parsed
\* body, the catch of a body that is no JSON, and setLoading(false)
JsonSettled(k) ==
    /\ k \in 1..Len(chat.calls)
    /\ chat.calls[k].at = "json"
    /\ LET res == chat.calls[k].res
       IN  chat' =
             IF res.json
             THEN [chat EXCEPT
                     !.answer = AnswerOrError(res.data),
                     !.loading = FALSE,
                     !.calls = Without(chat.calls, k),
                     !.last = IF Has(res.data, "error") THEN "error" ELSE "answer"]
             ELSE Thrown(chat, k)
    /\ UNCHANGED <<stage, chunkVars, serverVars>>

----------------------------------------------------------------------------
(* The stage of the App component (App.jsx): panel 0 is the Chat, panel 1  *)
(* the Admin. Time passes in steps that divide both delays; a timer fires  *)
(* when its delay has passed, before time goes on. A function of a render  *)
(* sees the panel of that render: the gesture handlers are subscribed anew *)
(* whenever panel changes, while the timer of a call-to-action keeps the   *)
(* goTo, and with it the panel, of the render in which it was clicked.     *)

\* the timers that may be pending at once in the model
MaxTimers == 2

\* setTimeout(..., 300) of handleCTA, setTimeout(..., 650) of goTo
CtaDelay == 300
ReleaseDelay == 650

\* e.deltaY > 25, Math.abs(diff) < 30
WheelThreshold == 25
TouchThreshold == 30

RECURSIVE Gcd(_, _)
Gcd(a, b) == IF b = 0 THEN a ELSE Gcd(b, a % b)

\* the step of time
Step == Gcd(CtaDelay, ReleaseDelay)

\* the wheel deltas and the touch positions of the gestures
Deltas == {0 - 30, 10, 30}
TouchYs == {0, 40}

\* the calls-to-action of the hero
Targets == {"ask", "admin"}

StageInit ==
    [panel |-> 0, isAnimating |-> FALSE, timers |-> <<>>,
     startY |-> 0, latestY |-> 0, fired |-> <<>>]

\* goTo(idx) of the render that showed the panel seen; when the panel
\* changes, the effect of [panel] runs again and its startY and latestY
\* start at 0
GoTo(st, idx, seen) ==
    IF idx = seen
    THEN st
    ELSE [st EXCEPT
            !.isAnimating = TRUE,
            !.panel = idx,
            !.timers = Append(@, [kind |-> "release", left |-> ReleaseDelay,
                                  idx |-> 0, panel |-> 0]),
            !.startY = IF idx = st.panel THEN @ ELSE 0,
            !.latestY = IF idx = st.panel THEN @ ELSE 0]

\* onWheel(e), with what canScrollInDirection(e.target, e.deltaY) finds
OnWheel(deltaY, canScroll) ==
    /\ Len(stage.timers) < MaxTimers
    /\ stage' =
          IF stage.isAnimating THEN stage
          ELSE IF canScroll THEN stage
          ELSE IF deltaY > WheelThreshold /\ stage.panel < 1
               THEN GoTo(stage, 1, stage.panel)
          ELSE IF deltaY < 0 - WheelThreshold /\ stage.panel > 0
               THEN GoTo(stage, 0, stage.panel)
          ELSE stage
    /\ UNCHANGED <<chat, chunkVars, serverVars>>

\* onTouchStart(e)
OnTouchStart(y) ==
    /\ stage' = [stage EXCEPT !.startY = y, !.latestY = y]
    /\ UNCHANGED <<chat, chunkVars, serverVars>>

\* onTouchMove(e)
OnTouchMove(y) ==
    /\ stage' = [stage EXCEPT !.latestY = y]
    /\ UNCHANGED <<chat, chunkVars, serverVars>>

\* onTouchEnd()
OnTouchEnd ==
    /\ Len(stage.timers) < MaxTimers
    /\ LET diff == stage.startY - stage.latestY
       IN  stage' =
             IF Abs(diff) < TouchThreshold \/ stage.isAnimating THEN stage
             ELSE IF diff > 0 /\ stage.panel < 1 THEN GoTo(stage, 1, stage.panel)
             ELSE IF diff < 0 /\ stage.panel > 0 THEN GoTo(stage, 0, stage.panel)
             ELSE stage
    /\ UNCHANGED <<chat, chunkVars, serverVars>>

\* handleCTA(target)(e): the timer of goTo(target === "admin" ? 1 : 0) is set
HandleCTA(target) ==
    /\ Len(stage.timers) < MaxTimers
    /\ stage' = [stage EXCEPT
            !.timers = Append(@, [kind |-> "cta", left |-> CtaDelay,
                                  idx |-> IF target = "admin" THEN 1 ELSE 0,
                                  panel |-> stage.panel])]
    /\ UNCHANGED <<chat, chunkVars, serverVars>>

\* the timers that are due
Due == {k \in 1..Len(stage.timers) : stage.timers[k].left = 0}

\* time passes
Tick ==
    /\ stage.timers # <<>>
    /\ Due = {}
    /\ stage' = [stage EXCEPT
            !.timers = [k \in 1..Len(stage.timers) |->
                           [stage.timers[k] EXCEPT !.left = @ - Step]]]
    /\ UNCHANGED <<chat, chunkVars, serverVars>>

\* the first of the due timers fires: isAnimatingRef.current = false of
\* goTo, or goTo(...) of handleCTA
TimerFires ==
    /\ Due # {}
    /\ LET k == CHOOSE j \in Due : \A m \in Due : j <= m
           t == stage.timers[k]
           rest == [stage EXCEPT !.timers = Without(stage.timers, k)]
       IN  stage' =
             IF t.kind = "release"
             THEN [rest EXCEPT !.isAnimating = FALSE]
             ELSE LET after == GoTo(rest, t.idx, t.panel)
                  IN  [after EXCEPT
                          !.fired = <<[target |-> t.idx, shown |-> after.panel]>>]
    /\ UNCHANGED <<chat, chunkVars, serverVars>>

----------------------------------------------------------------------------
(* The specifications. *)

\* the frontend is not modelled
UiIdle ==
    /\ chat = ChatInit
    /\ stage = StageInit

\* no call of chunkText is modelled
ChunkIdle ==
    /\ text = <<>>
    /\ size = DefaultSize
    /\ overlap = DefaultOverlap
    /\ i = 0
    /\ chunks = <<>>
    /\ starts = <<>>
    /\ pc = "idle"

\* the server has started: the admin token is configured or not, the
\* collection is empty, no request has arrived
ServerInit ==
    /\ adminToken \in {Undefined, JStr("secret")}
    /\ store = {}
    /\ nextId = 1
    /\ req = [r \in Reqs |-> Fresh]
    /\ lastWrite = <<>>

Init == ChunkIdle /\ ServerInit /\ UiIdle

Next ==
    \E r \in Reqs :
        \/ IngestStart(r)
        \/ IngestConnected(r)
        \/ IngestFetched(r)
        \/ IngestEmbedded(r)
        \/ \E k \in req[r].pending : StoreApply(r, k)
        \/ IngestWritten(r)
        \/ \E body \in AskBodies : AskStart(r, body)
        \/ AskConnected(r)
        \/ AskEmbedded(r)
        \/ AskSearched(r)
        \/ AskAnswered(r)
        \/ Healthz(r)
        \/ Rejected(r)

Spec == Init /\ [][Next]_vars

\* a complete ingestion of the page p of url, in the order of its operations
RECURSIVE ApplyAll(_, _, _)
ApplyAll(st, nid, ops) ==
    IF ops = <<>>
    THEN [store |-> st, nextId |-> nid]
    ELSE LET out == CHOOSE o \in UpdateOne(st, nid, Head(ops)) : TRUE
         IN  ApplyAll(out.store, out.nextId, Tail(ops))

Ingested(db, city, category, url, p, tags) ==
    ApplyAll(db.store, db.nextId,
             UpsertOps(MakeDocs(city, category, url, TitleOf(Html[p]), tags,
                                ChunksOf(p), EmbedDocuments(ChunksOf(p)))))

\* the collections earlier ingestions have left: none; one page; and the
\* pages of three ingestions, of different cities, categories and tags
EmptyDb == [store |-> {}, nextId |-> 1]
SmallDb == Ingested(EmptyDb, "Tokyo", "Transit", "https://u1", "longA", <<"jr">>)
MixedDb ==
    Ingested(
        Ingested(
            Ingested(EmptyDb, "Tokyo", "Transit", "https://u3", "bigA", <<"jr", "bus">>),
            "Osaka", "Pass", "https://u4", "bigB", <<"jr">>),
        "Tokyo", "Pass", "https://u2", "short", <<>>)

\* the server has started on a collection that earlier ingestions have filled
AskInit ==
    /\ ChunkIdle
    /\ UiIdle
    /\ adminToken = JStr("secret")
    /\ \E db \in {EmptyDb, SmallDb, MixedDb} :
          /\ store = db.store
          /\ nextId = db.nextId
    /\ req = [r \in Reqs |-> Fresh]
    /\ lastWrite = <<>>

\* questions only, any of them
AskNext ==
    \E r \in Reqs :
        \/ \E body \in AllAskBodies : AskStart(r, body)
        \/ AskConnected(r)
        \/ AskEmbedded(r)
        \/ AskSearched(r)
        \/ AskAnswered(r)
        \/ Rejected(r)

SpecAsk == AskInit /\ [][AskNext]_vars

\* the server is not modelled
ServerIdle ==
    /\ adminToken = Undefined
    /\ store = {}
    /\ nextId = 1
    /\ req = [r \in Reqs |-> Fresh]
    /\ lastWrite = <<>>

ChunkInit ==
    /\ \E in \in ChunkInputs :
          /\ text = in[1]
          /\ size = in[2]
          /\ overlap = in[3]
    /\ i = 0
    /\ chunks = <<>>
    /\ starts = <<>>
    /\ pc = "loop"
    /\ ServerIdle
    /\ UiIdle

ChunkNext == ChunkStep \/ ChunkReturn

SpecChunk == ChunkInit /\ [][ChunkNext]_vars

\* chunkText is synchronous: once called, the loop runs on until it returns
SpecChunkFair == SpecChunk /\ WF_vars(ChunkNext)

\* the Chat component alone, mounted
ChatSpecInit == ChunkIdle /\ ServerIdle /\ UiIdle

ChatNext ==
    \/ \E q \in Queries : SetQuery(q)
    \/ \E c \in Range(CITIES) : SetCity(c)
    \/ Ask
    \/ ClearChat
    \/ \E k \in 1..MaxCalls :
          \/ FetchResolved(k)
          \/ FetchRejected(k)
          \/ JsonSettled(k)

SpecChat == ChatSpecInit /\ [][ChatNext]_vars

\* the stage of the App component alone, mounted
StageSpecInit == ChunkIdle /\ ServerIdle /\ UiIdle

StageNext ==
    \/ \E d \in Deltas, canScroll \in BOOLEAN : OnWheel(d, canScroll)
    \/ \E y \in TouchYs : OnTouchStart(y)
    \/ \E y \in TouchYs : OnTouchMove(y)
    \/ OnTouchEnd
    \/ \E target \in Targets : HandleCTA(target)
    \/ Tick
    \/ TimerFires

SpecStage == StageSpecInit /\ [][StageNext]_vars

----------------------------------------------------------------------------
(* Claims about chunkText. *)

Returned == pc = "done" /\ 0 <= overlap /\ overlap < size

\* C1 (as claimed): a text of length L is cut into
\* ceil(max(L-O,0)/(W-O)) chunks.
C1_CountAsClaimed ==
    Returned => Len(chunks) = CeilDiv(Max(Len(text) - overlap, 0), size - overlap)

\* C1 (amended): for 0 <= O < W a text of length L is cut into exactly
\* ceil(L/(W-O)) chunks.
C1_Count ==
    Returned => Len(chunks) = CeilDiv(Len(text), size - overlap)

\* the longest text has been cut with window 3 and overlap 2, into as many
\* chunks as it has characters, the last of them inside the one before it
C1_Witness ==
    /\ Returned
    /\ Len(text) = MaxLen
    /\ overlap = 2
    /\ size = 3
    /\ Len(chunks) = MaxLen

\* the last n characters of s, the first n characters of s
Suffix(s, n) == SubSeq(s, Len(s) - n + 1, Len(s))
Prefix(s, n) == SubSeq(s, 1, n)

\* chunks k and k+1 share exactly their n boundary characters, at the same
\* positions of the text
OverlapBy(k, n) ==
    /\ Len(chunks[k]) >= n
    /\ Len(chunks[k + 1]) >= n
    /\ Suffix(chunks[k], n) = Prefix(chunks[k + 1], n)
    /\ starts[k] + Len(chunks[k]) - n = starts[k + 1]

\* C2 (as claimed): every pair of consecutive chunks other than the pair
\* ending in the last chunk overlaps by exactly O characters.
C2_OverlapAsClaimed ==
    Returned => \A k \in 1..(Len(chunks) - 2) : OverlapBy(k, overlap)

\* C2 (amended): every pair of consecutive chunks overlaps by exactly
\* min(O, length of the later chunk) characters, the last of the earlier chunk
\* being the first of the later one at the same positions of the text: exactly
\* O whenever the later chunk has at least O characters.
C2_Overlap ==
    Returned =>
        \A k \in 1..(Len(chunks) - 1) :
            OverlapBy(k, Min(overlap, Len(chunks[k + 1])))

\* a run whose second chunk is full and overlaps the first by O > 0, and whose
\* later chunks are shorter than O
C2_Witness ==
    /\ Returned
    /\ overlap = 2
    /\ size = 3
    /\ Len(chunks) >= 4
    /\ Len(chunks[2]) = size
    /\ Len(chunks[Len(chunks)]) < overlap

\* C3: chunkText is a purely positional split: the k-th chunk (k from 0) is
\* the substring of text from k*(W-O) to min(k*(W-O)+W, L), in increasing k,
\* and these are all the chunks that start inside the text; the
\* 1000-character text cut with 900/120 gives two chunks, of 900 and 220.
C3_Positional ==
    Returned =>
        /\ \A k \in 1..Len(chunks) :
              LET from == (k - 1) * (size - overlap)
              IN  /\ from < Len(text)
                  /\ chunks[k] = SubSeq(text, from + 1, Min(from + size, Len(text)))
        /\ Len(chunks) * (size - overlap) >= Len(text)
        /\ (Len(text) = 1000 /\ size = 900 /\ overlap = 120) =>
              /\ Len(chunks) = 2
              /\ Len(chunks[1]) = 900
              /\ Len(chunks[2]) = 220

\* the example of the specification has been run
C3_Witness ==
    /\ Returned
    /\ Len(text) = 1000
    /\ size = DefaultSize
    /\ overlap = DefaultOverlap
    /\ Len(chunks) = 2

----------------------------------------------------------------------------
(* Claims about the handlers. *)

Ingestions == {r \in Reqs : req[r].kind = "ingest"}
Questions == {r \in Reqs : req[r].kind = "ask"}

\* the calls of op in the log of a request
CallsOf(rec, op) == {k \in 1..Len(rec.log) : rec.log[k].op = op}

\* C4: an ingestion request whose x-admin-token header is missing or differs
\* from the configured admin token (set or not) is answered 401, whatever its
\* body, and no fetch, embedding call, store connection or store write is
\* made for it.
C4_UnauthorizedIs401 ==
    \A r \in Ingestions :
        (req[r].hdr = Undefined \/ req[r].hdr # adminToken) =>
            /\ req[r].pc = "done"
            /\ req[r].status = 401
            /\ req[r].log = <<>>
            /\ req[r].applied = {}

\* C5: ingesting the same URLs twice, one request after the other, with the
\* same pages fetched, leaves the store with the documents of the same
\* (url,pos) keys, as many as after the first ingestion.
C5_UpsertIdempotent ==
    \A a \in Ingestions, b \in Ingestions :
        ( /\ a # b
          /\ req[a].pc = "done" /\ req[a].status = 200
          /\ req[b].pc = "done" /\ req[b].status = 200
          /\ a \in req[b].doneAtStart
          /\ req[a].urls = req[b].urls
          /\ req[a].pages = req[b].pages )
        => /\ Keys(store) = Keys(req[b].pre)
           /\ Cardinality(store) = Cardinality(req[b].pre)

\* a page of two chunks has been ingested twice, one request after the other
C5_Witness ==
    \E a \in Ingestions, b \in Ingestions :
        /\ a # b
        /\ req[a].pc = "done" /\ req[a].status = 200
        /\ req[b].pc = "done" /\ req[b].status = 200
        /\ a \in req[b].doneAtStart
        /\ req[a].urls = req[b].urls
        /\ req[a].pages = <<"longA">>
        /\ req[b].pages = <<"longA">>
        /\ req[b].resp.ingestedChunks = 2
        /\ Cardinality(store) = 2

\* the request has been answered 200
Returned200(r) == req[r].pc = "done" /\ req[r].status = 200

\* the question holds the documents the store retrieved for it: the chat
\* model is being asked, or has answered
HasDocs(r) == req[r].pc = "invoke" \/ Returned200(r)

\* the documents /ask retrieved for a question, once it has them
Retrieved(r) == IF HasDocs(r) THEN Range(req[r].docs) ELSE {}

\* d is a document of the store as it is stored
Stored(d) ==
    \E x \in store :
        /\ x._id = d._id /\ x.url = d.url /\ x.city = d.city
        /\ x.category = d.category /\ x.meta = d.meta /\ x.chunk = d.chunk

\* C6 (as claimed): every chunk /ask uses or returns satisfies every filter
\* the request supplies: its stored city is the requested city, its stored
\* category the requested category, and its tags contain every requested tag.
C6_FiltersAsClaimed ==
    \A r \in Questions : \A d \in Retrieved(r) :
        /\ Stored(d)
        /\ req[r].hasCity => d.city = req[r].city
        /\ req[r].hasCategory => d.category = req[r].category
        /\ req[r].hasTags => Range(req[r].tags) \subseteq Range(d.meta.tags)

\* C6 (amended): every chunk /ask uses or returns satisfies every filter the
\* request supplies other than an empty string: its stored city is the
\* requested city, its stored category the requested category, and its tags
\* contain every requested tag; an absent filter, an empty city or category,
\* or an empty list of tags excludes nothing.
C6_Filters ==
    \A r \in Questions :
        /\ \A d \in Retrieved(r) :
              /\ Stored(d)
              /\ (req[r].hasCity /\ req[r].city # "") => d.city = req[r].city
              /\ (req[r].hasCategory /\ req[r].category # "") =>
                    d.category = req[r].category
              /\ req[r].hasTags => Range(req[r].tags) \subseteq Range(d.meta.tags)
        /\ Returned200(r) =>
              \A u \in Range(req[r].resp.sources) : \E d \in Retrieved(r) : d.url = u
        /\ ( /\ HasDocs(r)
             /\ ~(req[r].hasCity /\ req[r].city # "")
             /\ ~(req[r].hasCategory /\ req[r].category # "")
             /\ ~(req[r].hasTags /\ req[r].tags # <<>>) )
           => Len(req[r].docs) = Min(Limit, Cardinality(store))

\* a question for the passes of Tokyo, with an empty list of tags, has been
\* answered of the one chunk that passes the filters, from a store that holds
\* chunks of Osaka and chunks of Tokyo of another category
C6_Witness ==
    \E r \in Questions :
        /\ Returned200(r)
        /\ req[r].hasCity /\ req[r].city = "Tokyo"
        /\ req[r].hasCategory /\ req[r].category = "Pass"
        /\ req[r].hasTags /\ req[r].tags = <<>>
        /\ Len(req[r].docs) = 1
        /\ \E x \in store : x.city = "Osaka"
        /\ \E x \in store : x.city = "Tokyo" /\ x.category = "Transit"

\* C7: when the only URL of an authorized ingestion yields a page without
\* content container and with an empty body, the chunk list is empty, no
\* store write is issued, the store is left as it was, and the response is
\* { ok: true, ingestedChunks: 0 }.
C7_EmptyExtraction ==
    \A r \in Ingestions :
        (Len(req[r].urls) = 1 /\ req[r].pages = <<"empty">>) =>
            /\ req[r].counts = <<0>>
            /\ req[r].chunks = <<>>
            /\ CallsOf(req[r], "bulkWrite") = {}
            /\ req[r].applied = {}
            /\ req[r].pc \in {"embed", "done"}
            /\ req[r].pc = "done" =>
                  /\ req[r].status = 200
                  /\ req[r].resp = [ok |-> TRUE, ingestedChunks |-> 0]
            /\ (\A o \in Reqs \ {r} : o \in req[r].doneAtStart \/ req[o].applied = {})
                  => store = req[r].pre

\* an ingestion of one URL has been answered after an empty page, with
\* documents in the store
C7_Witness ==
    \E r \in Ingestions :
        /\ req[r].pc = "done"
        /\ Len(req[r].urls) = 1
        /\ req[r].pages = <<"empty">>
        /\ ~Has(Html.empty, "content")
        /\ Html.empty.body = <<>>
        /\ store # {}
        /\ store = req[r].pre

\* C8: a successful /ask retrieves at most 8 chunks and puts them in the
\* context of the prompt, and returns at most 5 sources, the URLs of the
\* first 5 retrieved chunks in the order of retrieval.
C8_Limits ==
    \A r \in Questions :
        HasDocs(r) =>
            /\ Len(req[r].docs) <= 8
            /\ \A k \in CallsOf(req[r], "invoke") : req[r].log[k].k = Len(req[r].docs)
            /\ Returned200(r) =>
                  LET sources == req[r].resp.sources
                  IN  /\ Len(sources) <= 5
                      /\ Len(sources) = Min(5, Len(req[r].docs))
                      /\ \A k \in 1..Len(sources) : sources[k] = req[r].docs[k].url

\* a question has been answered of 8 chunks and 5 sources, from a store of
\* more than 8
C8_Witness ==
    \E r \in Questions :
        /\ Returned200(r)
        /\ Cardinality(store) > 8
        /\ Len(req[r].docs) = 8
        /\ Len(req[r].resp.sources) = 5

\* the requests whose ingestion failed while it processed a URL
FailedAtUrl == {r \in Ingestions : req[r].pc = "done" /\ req[r].failed \in {"fetch", "embed", "write"}}

\* C9: in an ingestion of several URLs, when the processing of the k-th URL
\* fails (fetch, embedding or store write), no URL after the k-th is fetched,
\* embedded or upserted, and the response is a client error that carries
\* neither ok nor a count of ingested chunks.
C9_AbortOnFirstFailure ==
    \A r \in FailedAtUrl :
        LET k == req[r].n
        IN  /\ req[r].status = 400
            /\ DOMAIN req[r].resp = {"error"}
            /\ \A c \in 1..Len(req[r].log) : req[r].log[c].n <= k
            /\ Cardinality(CallsOf(req[r], "fetch")) = k
            /\ Len(req[r].pages) <= k
            /\ \A key \in req[r].applied : \E c \in 1..k : req[r].urls[c] = key[1]

\* an ingestion of two URLs has failed at its first URL, and another at its
\* second after it had written the chunks of the first
C9_Witness ==
    /\ \E r \in FailedAtUrl :
          Len(req[r].urls) = 2 /\ req[r].n = 1 /\ req[r].failed = "fetch"
    /\ \E r \in FailedAtUrl :
          Len(req[r].urls) = 2 /\ req[r].n = 2 /\ req[r].applied # {}

\* the keys both requests have upserted
WrittenByBoth == req["r1"].applied \cap req["r2"].applied

----------------------------------------------------------------------------
(* Further claims about chunkText. *)

\* chunk k ends before the end of the text
EndsInside(k) == starts[k] + size < Len(text)

\* C15 (as claimed): every chunk is non-empty and at most W characters long,
\* and every chunk other than the last has length exactly W.
C15_LengthsAsClaimed ==
    Returned =>
        /\ \A k \in 1..Len(chunks) : Len(chunks[k]) >= 1 /\ Len(chunks[k]) <= size
        /\ \A k \in 1..(Len(chunks) - 1) : Len(chunks[k]) = size

\* C15 (amended): every chunk is non-empty and at most W characters long; a
\* chunk is shorter than W only when it reaches the end of the text, every
\* chunk that ends before it has length exactly W, and with O = 0 only the
\* final chunk can be shorter than W.
C15_Lengths ==
    Returned =>
        /\ \A k \in 1..Len(chunks) :
              /\ Len(chunks[k]) >= 1
              /\ Len(chunks[k]) <= size
              /\ Len(chunks[k]) < size => starts[k] + Len(chunks[k]) = Len(text)
              /\ EndsInside(k) => Len(chunks[k]) = size
        /\ overlap = 0 => \A k \in 1..(Len(chunks) - 1) : Len(chunks[k]) = size

\* a run with full chunks, and with two chunks shorter than the window
C15_Witness ==
    /\ Returned
    /\ size = 3
    /\ overlap = 2
    /\ Len(chunks) >= 4
    /\ Len(chunks[1]) = size
    /\ Len(chunks[Len(chunks) - 1]) = 2
    /\ Len(chunks[Len(chunks)]) = 1

\* C19: chunkText returns for every text whenever overlap < size, and never
\* returns for a non-empty text when overlap >= size: the cursor then never
\* passes the start of the text and the loop condition stays true.
C19_Termination ==
    /\ (pc = "loop" /\ overlap < size) ~> (pc = "done")
    /\ []((overlap >= size /\ text # <<>>) =>
             /\ pc = "loop"
             /\ i <= 0
             /\ LoopGuard(i, text, overlap))

\* a run with overlap > size has pushed chunk after chunk, its cursor moving
\* backwards from the start of the text
C19_Witness ==
    /\ pc = "loop"
    /\ overlap > size
    /\ text # <<>>
    /\ i < 0
    /\ Len(chunks) = MaxChunks

\* the chunk without its first n characters: c.slice(n)
Strip(c, n) == Slice(c, n, Len(c))

\* the first chunk followed by every later chunk stripped of its overlap
RECURSIVE Rejoin(_, _)
Rejoin(cs, ov) ==
    IF cs = <<>> THEN <<>>
    ELSE IF Len(cs) = 1 THEN cs[1]
    ELSE Rejoin(SubSeq(cs, 1, Len(cs) - 1), ov) \o Strip(cs[Len(cs)], ov)

\* C20: chunkText loses no text: for 0 <= O < W the first chunk followed by
\* every later chunk stripped of its first O characters is the text, every
\* position of the text lies in a chunk, and the empty text gives no chunks.
C20_NoTextLost ==
    Returned =>
        /\ Rejoin(chunks, overlap) = text
        /\ \A p \in 1..Len(text) :
              \E k \in 1..Len(chunks) :
                  /\ starts[k] < p
                  /\ p <= starts[k] + Len(chunks[k])
                  /\ chunks[k][p - starts[k]] = text[p]
        /\ text = <<>> => chunks = <<>>

\* a text of both characters has been cut into chunks of which the later are
\* shorter than the overlap
C20_Witness ==
    /\ Returned
    /\ Len(text) = MaxLen
    /\ text[1] # text[2]
    /\ size = 3
    /\ overlap = 2
    /\ Len(chunks) = MaxLen
    /\ Rejoin(chunks, overlap) = text

----------------------------------------------------------------------------
(* Further claims about the handlers. *)

Ids(st) == {x._id : x \in st}

\* the requests other than b that may have written since b arrived
WritersSince(b) == {o \in Reqs \ {b} : o \notin req[b].doneAtStart}

\* C12: no operation removes a stored chunk: in every step the set of the
\* stored (url,pos) keys, and of the stored documents, only grows; a step of
\* /ask, of /healthz or of a failing request leaves the store as it is; and
\* after an ingestion every document that was stored when it arrived and that
\* no request has upserted since is still stored as it was, so that
\* re-ingesting a URL that now yields fewer chunks leaves the old chunks at
\* the positions it no longer writes.
C12_NeverRemoved ==
    /\ [][ /\ Keys(store) \subseteq Keys(store')
           /\ Ids(store) \subseteq Ids(store')
           /\ \A r \in Reqs :
                 ( /\ req'[r] # req[r]
                   /\ \/ req'[r].kind \in {"ask", "healthz"}
                      \/ req'[r].status \in {400, 401} )
                 => store' = store ]_vars
    /\ [](\A b \in Ingestions :
            \A x \in req[b].pre :
                /\ KeyOf(x) \in Keys(store)
                /\ (\A o \in WritersSince(b) \cup {b} : KeyOf(x) \notin req[o].applied)
                      => x \in store)

\* a URL stored with two chunks has been ingested again with a page of one
\* chunk: position 0 holds the new chunk, position 1 still the old one
C12_Witness ==
    \E b \in Ingestions :
        /\ Returned200(b)
        /\ req[b].urls = <<"https://u1">>
        /\ req[b].pages = <<"short">>
        /\ req[b].resp.ingestedChunks = 1
        /\ WritersSince(b) = {}
        /\ \E x \in req[b].pre : KeyOf(x) = <<"https://u1", 1>> /\ x.chunk.page = "longA"
        /\ \E x \in store : KeyOf(x) = <<"https://u1", 0>> /\ x.chunk.page = "short"
        /\ \E x \in store : KeyOf(x) = <<"https://u1", 1>> /\ x.chunk.page = "longA"

\* the bodies of /ask the claim names: the query missing or shorter than 3
\* characters, or a filter of the wrong type
AskCase(body) ==
    \/ ~Has(body, "query")
    \/ IsJStr(body.query) /\ Len(body.query.v) < 3
    \/ Has(body, "city") /\ ~IsJStr(body.city)
    \/ Has(body, "category") /\ ~IsJStr(body.category)
    \/ Has(body, "tags") /\ ~IsJStrArr(body.tags)

\* the bodies of an ingestion the claim names: the city shorter than 2
\* characters, urls empty or with an element that is no URL
IngestCase(body) ==
    \/ Has(body, "city") /\ IsJStr(body.city) /\ Len(body.city.v) < 2
    \/ Has(body, "urls") /\ IsJStrArr(body.urls) /\
          \/ Len(body.urls.v) = 0
          \/ \E k \in 1..Len(body.urls.v) : ~IsUrl(body.urls.v[k].v)

\* the schemas find an issue in each of these bodies
CasesRejected ==
    /\ \A body \in AllAskBodies : AskCase(body) => AskIssues(body) # {}
    /\ \A body \in IngestBodies : IngestCase(body) => IngestIssues(body) # {}

\* the request got past the token check, if it had one to pass
Authorized(r) == req[r].kind = "ingest" => ~Unauthorized(req[r].hdr, adminToken)

\* C13: a request that fails input validation (/ask: query missing or
\* shorter than 3 characters, or a filter of the wrong type; an authorized
\* ingestion: city shorter than 2 characters, urls empty or with a non-URL)
\* is answered with a client error that carries the validation message, and
\* no store connection, embedding call, fetch, chat-model call or store
\* write is made for it.
C13_InvalidIs400 ==
    /\ CasesRejected
    /\ \A r \in Ingestions \cup Questions :
          (~req[r].valid /\ Authorized(r)) =>
              /\ req[r].pc = "done"
              /\ req[r].status = 400
              /\ req[r].resp.error.name = "ZodError"
              /\ req[r].resp.error.issues # {}
              /\ req[r].log = <<>>
              /\ req[r].applied = {}

\* an ingestion with the right token and a question have both been refused
\* by their schemas
C13_Witness ==
    /\ req["r1"].kind = "ingest"
    /\ req["r1"].hdr = adminToken
    /\ adminToken # Undefined
    /\ req["r1"].status = 400
    /\ req["r1"].resp.error = Err("ZodError", {"urls"})
    /\ req["r2"].kind = "ask"
    /\ req["r2"].status = 400
    /\ req["r2"].resp.error = Err("ZodError", {"query"})

\* the call a handler awaits at each position
OpOf(at) ==
    CASE at = "embed" -> "embedDocuments"
      [] at = "write" -> "bulkWrite"
      [] OTHER -> at

\* C14: every failure of an external step (store connect, embedding, vector
\* search, chat model, URL fetch, bulk write) ends its request with a
\* client-error response; the failed step was attempted exactly once (no
\* call is made twice) and no later step of the request is executed: the
\* failed call is the last the request made.
C14_FailureEndsRequest ==
    \A r \in Reqs :
        /\ \A j \in 1..Len(req[r].log), k \in 1..Len(req[r].log) :
              (req[r].log[j].op = req[r].log[k].op /\ req[r].log[j].n = req[r].log[k].n)
                  => j = k
        /\ req[r].failed # "" =>
              /\ req[r].pc = "done"
              /\ req[r].status = 400
              /\ DOMAIN req[r].resp = {"error"}
              /\ req[r].resp.error.name = req[r].failed
              /\ req[r].failed \in Awaiting
              /\ req[r].log # <<>>
              /\ req[r].log[Len(req[r].log)].op = OpOf(req[r].failed)

\* an ingestion has failed in its bulkWrite, one of the two operations
\* applied, and a question in the call of the chat model
C14_Witness ==
    /\ req["r1"].kind = "ingest"
    /\ req["r1"].failed = "write"
    /\ req["r1"].log[Len(req["r1"].log)] = Call("bulkWrite", 1, 2)
    /\ Cardinality(req["r1"].applied) = 1
    /\ req["r2"].kind = "ask"
    /\ req["r2"].failed = "invoke"
    /\ req["r2"].status = 400

\* the stored document x satisfies every filter the question supplies
SatisfiesSupplied(r, x) ==
    /\ req[r].hasCity => x.city = req[r].city
    /\ req[r].hasCategory => x.category = req[r].category
    /\ req[r].hasTags => Range(req[r].tags) \subseteq Range(x.meta.tags)

\* the stored document x satisfies every filter the question supplies other
\* than an empty string
SatisfiesNonEmpty(r, x) ==
    /\ (req[r].hasCity /\ req[r].city # "") => x.city = req[r].city
    /\ (req[r].hasCategory /\ req[r].category # "") => x.category = req[r].category
    /\ req[r].hasTags => Range(req[r].tags) \subseteq Range(x.meta.tags)

\* the stored documents that are strictly nearer to q than x
Nearer(x, q) == {y \in store : Score(q, y.embedding) > Score(q, x.embedding)}

\* T is a set of the Limit nearest stored documents of q
IsNearest(T, q) ==
    /\ T \subseteq store
    /\ Cardinality(T) = Min(Limit, Cardinality(store))
    /\ \A x \in T : \A y \in store \ T : Score(q, x.embedding) >= Score(q, y.embedding)

\* the documents of the question r are exactly those of some Limit nearest
\* neighbours of its query that satisfy Sat, nearest first
PostFiltered(r, Sat(_, _)) ==
    LET q    == req[r].qVec
        docs == req[r].docs
    IN  /\ \E T \in SUBSET {x \in store : Cardinality(Nearer(x, q)) < Limit} :
              /\ IsNearest(T, q)
              /\ Len(docs) = Cardinality({x \in T : Sat(r, x)})
              /\ {d._id : d \in Range(docs)} = {x._id : x \in {y \in T : Sat(r, y)}}
        /\ \A k \in 1..(Len(docs) - 1) : docs[k].score >= docs[k + 1].score

\* C16 (as claimed): the chunks used for an answer are exactly those among
\* the 8 nearest unfiltered neighbours of the query that satisfy the supplied
\* filters.
C16_PostFilterAsClaimed ==
    \A r \in Questions : HasDocs(r) => PostFiltered(r, SatisfiesSupplied)

\* C16 (amended): the filters are applied after the nearest-neighbour limit:
\* the chunks used for an answer are exactly those among the 8 nearest
\* unfiltered neighbours of the query that satisfy the supplied filters other
\* than an empty string (an empty city or category excludes nothing), nearest
\* first.
C16_PostFilter ==
    \A r \in Questions : HasDocs(r) => PostFiltered(r, SatisfiesNonEmpty)

\* a question for Osaka alone has been answered of no chunk, its 8 nearest
\* neighbours being of Tokyo, from a store that holds more than 8 chunks of
\* Osaka
C16_Witness ==
    \E r \in Questions :
        /\ Returned200(r)
        /\ req[r].hasCity /\ req[r].city = "Osaka"
        /\ ~req[r].hasCategory
        /\ ~req[r].hasTags
        /\ req[r].docs = <<>>
        /\ req[r].resp.sources = <<>>
        /\ Cardinality({x \in store : x.city = "Osaka"}) > Limit

\* the keys the c-th URL of the ingestion r was cut into
KeysOfUrl(r, c) == {<<req[r].urls[c], pos>> : pos \in 0..(req[r].counts[c] - 1)}

\* x holds the chunk of its position of a page the ingestion r fetched of the
\* URL of x, with the city of r
WrittenBy(r, x) ==
    /\ x.city = req[r].city
    /\ \E c \in 1..Len(req[r].pages) :
          /\ req[r].urls[c] = x.url
          /\ x.chunk = [page |-> req[r].pages[c], k |-> x.pos + 1]

\* C17: a failed multi-URL ingestion is not atomic: when the k-th URL of a
\* batch fails, every chunk upserted for the URLs 1..k-1 of the batch is in
\* the store after the error response (as the batch wrote it, unless another
\* request has written its key since): nothing is rolled back.
C17_NoRollback ==
    \A r \in FailedAtUrl :
        \A c \in 1..(req[r].n - 1) :
            \A key \in KeysOfUrl(r, c) :
                /\ key \in req[r].applied
                /\ \E x \in store :
                      /\ KeyOf(x) = key
                      /\ lastWrite[key].by = r => WrittenBy(r, x)

\* a batch of two URLs has been answered 400 for a failure at its second
\* URL, and the two chunks of its first URL are in the store, which was
\* empty when the batch arrived
C17_Witness ==
    \E r \in FailedAtUrl :
        /\ req[r].status = 400
        /\ req[r].urls = <<"https://u1", "https://u2">>
        /\ req[r].n = 2
        /\ req[r].counts[1] = 2
        /\ req[r].pre = {}
        /\ \A o \in Reqs \ {r} : req[o].applied = {}
        /\ Cardinality({x \in store : x.url = "https://u1" /\ WrittenBy(r, x)}) = 2

\* the sum of a sequence of numbers
RECURSIVE SumSeq(_)
SumSeq(ns) == IF ns = <<>> THEN 0 ELSE Head(ns) + SumSeq(Tail(ns))

\* C18: on a successful ingestion, ingestedChunks is the sum, over the
\* entries of urls counted with repetition, of the number of chunks cut for
\* the entry; it is not the number of documents created or stored.
C18_CountsChunksCut ==
    \A r \in Ingestions :
        Returned200(r) =>
            /\ Len(req[r].counts) = Len(req[r].urls)
            /\ Len(req[r].pages) = Len(req[r].urls)
            /\ \A c \in 1..Len(req[r].urls) :
                  req[r].counts[c] = Len(PageChunks[req[r].pages[c]])
            /\ req[r].resp = [ok |-> TRUE, ingestedChunks |-> SumSeq(req[r].counts)]

\* a batch that lists one URL twice has reported 2 ingested chunks, twice
\* the one chunk of the URL, and the store, empty before, holds 1 document
C18_Witness ==
    \E r \in Ingestions :
        /\ Returned200(r)
        /\ req[r].urls = <<"https://u2", "https://u2">>
        /\ req[r].pages = <<"short", "short">>
        /\ req[r].resp.ingestedChunks = 2
        /\ req[r].pre = {}
        /\ \A o \in Reqs \ {r} : req[o].applied = {}
        /\ Cardinality(store) = 1
        /\ Cardinality(req[r].applied) = 1

----------------------------------------------------------------------------
(* Claims about the frontend. *)

\* C21: in the Chat component loading is true exactly while a request of
\* ask() is in flight: ask() sets it, every outcome (answer, error body,
\* thrown fetch or parse failure) sets it back, and since the Get Answer
\* button is disabled while loading or while the query is blank, at most
\* one request is ever in flight, and it carries a query that is not blank.
C21_LoadingWhileInFlight ==
    /\ chat.loading <=> Len(chat.calls) >= 1
    /\ Len(chat.calls) <= 1
    /\ \A k \in 1..Len(chat.calls) : Trim(chat.calls[k].body.query) # <<>>
    /\ chat.last = "thrown" =>
          (chat.loading \/ chat.answer \in {JStr("Error fetching answer."), JStr("")})

\* a request is in flight, loading, after an earlier one ended in a thrown
\* failure
C21_Witness ==
    /\ chat.loading
    /\ Len(chat.calls) = 1
    /\ chat.calls[1].at = "json"
    /\ chat.last = "thrown"

\* C22: in the App stage panel is always 0 or 1, and when the 300 ms timer
\* of a hero call-to-action fires, the stage shows the target panel of that
\* call-to-action (0 for ask, 1 for admin), whatever wheel and touch
\* gestures came between the click and the timer.
C22_CtaShowsTarget ==
    /\ stage.panel \in {0, 1}
    /\ \A k \in 1..Len(stage.fired) : stage.fired[k].shown = stage.fired[k].target

====
